---- MODULE Spec2Model ----
(***************************************************************************)
(* A model of weather.py: Fahrenheit to Celsius conversion, date           *)
(* formatting, mean / min / max over a list, and the two text reports.     *)
(*                                                                         *)
(* Numbers.  Every float the program prints has one decimal, so a finite   *)
(* float is modelled by its exact count of tenths, [tenths, negzero]       *)
(* (negzero tells -0.0 from 0.0, which print differently), and the two     *)
(* infinities by [inf |-> 1] and [inf |-> -1].  Sums are kept exact.  The  *)
(* one place where the binary rounding error of a double can change a      *)
(* result is round(total / len, 1) in generate_summary: when the exact     *)
(* quotient lies halfway between two tenths, or is zero, the result        *)
(* depends on the sign of that error.  The sign is a function of the       *)
(* series that the model does not compute: it is drawn once per series     *)
(* (fp_err_min, fp_err_max) from every value it can take.                  *)
(*                                                                         *)
(* Strings are TLA+ strings, except the ISO date strings, which are        *)
(* parsed character by character and therefore are tuples of characters.   *)
(* The degree sign U+00B0 is written \N{DEGREE SIGN} wherever it occurs.   *)
(***************************************************************************)
EXTENDS Integers, Sequences, FiniteSets, TLC

VARIABLES
    weather_data,       \* the list handed to the functions (a series, or numbers)
    data_type,          \* "records" | "numbers" | "none" (the empty list)
    fp_err_min,         \* sign of the binary error of total_min / len
    fp_err_max,         \* sign of the binary error of total_max / len
    calls,              \* number of report generator calls made so far
    summary_result,     \* what generate_summary(weather_data) last returned
    summary_locals,     \* its local variables when it returned or raised
    daily_result,       \* what generate_daily_summary(weather_data) last returned
    daily_locals,       \* its local variables when it returned or raised
    mean_result,        \* what calculate_mean(weather_data) returned
    min_result,         \* what find_min(weather_data) returned
    max_result,         \* what find_max(weather_data) returned
    temp_in_fahrenheit, \* the argument of convert_f_to_c
    celsius_result      \* what convert_f_to_c(temp_in_fahrenheit) returned

vars == <<weather_data, data_type, fp_err_min, fp_err_max, calls,
          summary_result, summary_locals, daily_result, daily_locals,
          mean_result, min_result, max_result,
          temp_in_fahrenheit, celsius_result>>

----------------------------------------------------------------------------
(* Bounds of the model *)

MaxLen == 3
MaxValues == 4
MaxCalls == 3
FBelow == 120
FAbove == 260

----------------------------------------------------------------------------
(* Values: results, floats, strings *)

NotCalled == [called |-> FALSE]
Return(v) == [ret |-> v]
Raise(e) == [raise |-> e]
Returned(r) == "ret" \in DOMAIN r
Raised(r) == "raise" \in DOMAIN r

Finite(t, nz) == [tenths |-> t, negzero |-> nz]
PosInf == [inf |-> 1]
NegInf == [inf |-> -1]
IsInf(x) == "inf" \in DOMAIN x

\* x < y on floats
FloatLt(x, y) ==
    IF IsInf(x) THEN x.inf = -1 /\ y # NegInf
    ELSE IF IsInf(y) THEN y.inf = 1
    ELSE x.tenths < y.tenths

\* x == y on floats (-0.0 == 0.0)
FloatEq(x, y) ==
    IF IsInf(x) \/ IsInf(y) THEN x = y ELSE x.tenths = y.tenths

Abs(n) == IF n < 0 THEN -n ELSE n

\* str(x) of a float x with at most one decimal
FloatStr(x) ==
    IF IsInf(x) THEN (IF x.inf = 1 THEN "inf" ELSE "-inf")
    ELSE (IF x.tenths < 0 \/ x.negzero THEN "-" ELSE "")
         \o ToString(Abs(x.tenths) \div 10) \o "." \o ToString(Abs(x.tenths) % 10)

\* float(x) of an int x
Float(x) == Finite(10 * x, FALSE)

\* round(num / den, 1) with num / den counted in tenths, den > 0; err is the sign
\* of (the double that is rounded) - (the exact num / den)
Round1(num, den, err) ==
    LET q == num \div den
        r == num % den
        t == IF 2 * r < den THEN q
             ELSE IF 2 * r > den THEN q + 1
             ELSE IF err < 0 THEN q
             ELSE IF err > 0 THEN q + 1
             ELSE IF q % 2 = 0 THEN q ELSE q + 1
    IN  Finite(t, t = 0 /\ (num < 0 \/ (num = 0 /\ err < 0)))

RECURSIVE Join(_, _)
\* sep.join(strs)
Join(sep, strs) ==
    IF strs = <<>> THEN ""
    ELSE IF Len(strs) = 1 THEN strs[1]
    ELSE strs[1] \o sep \o Join(sep, Tail(strs))

----------------------------------------------------------------------------
(* Unit and format utilities *)

\* u"\N{DEGREE SIGN}C": the degree sign is written by its name, as in the source
DEGREE_SYMBOL == "\\N{DEGREE SIGN}C"

format_temperature(temp) == FloatStr(temp) \o DEGREE_SYMBOL

\* a slip: the decimals beyond the first are cut off, not rounded
convert_f_to_c_truncating(temp) ==
    LET temp_in_celsius_num == (Float(temp).tenths - 320) * 5
    IN  Finite(temp_in_celsius_num \div 9, FALSE)

\* a slip: round(temp_in_celsius), to whole degrees
convert_f_to_c_whole(temp) ==
    LET temp_in_celsius_num == (Float(temp).tenths - 320) * 5
    IN  Finite(10 * Round1(temp_in_celsius_num, 90, 0).tenths, FALSE)

convert_f_to_c(temp) ==
    LET temp_in_celsius_num == (Float(temp).tenths - 320) * 5
    IN  Round1(temp_in_celsius_num, 9, 0)

(* datetime.fromisoformat on the ten-character calendar form YYYY-MM-DD:     *)
(* every date string of the model has ten characters.                        *)
Digits == <<"0", "1", "2", "3", "4", "5", "6", "7", "8", "9">>
IsDigit(c) == \E d \in 1..10 : Digits[d] = c
DigitVal(c) == (CHOOSE d \in 1..10 : Digits[d] = c) - 1

IsLeap(y) == y % 4 = 0 /\ (y % 100 # 0 \/ y % 400 = 0)
DaysInMonth(y, m) ==
    IF m = 2 THEN (IF IsLeap(y) THEN 29 ELSE 28)
    ELSE IF m \in {4, 6, 9, 11} THEN 30 ELSE 31

fromisoformat(s) ==
    IF ~ ( /\ Len(s) = 10
           /\ s[5] = "-" /\ s[8] = "-"
           /\ \A i \in {1, 2, 3, 4, 6, 7, 9, 10} : IsDigit(s[i]) )
    THEN Raise("ValueError")
    ELSE LET y == 1000 * DigitVal(s[1]) + 100 * DigitVal(s[2])
                  + 10 * DigitVal(s[3]) + DigitVal(s[4])
             m == 10 * DigitVal(s[6]) + DigitVal(s[7])
             d == 10 * DigitVal(s[9]) + DigitVal(s[10])
         IN  IF y < 1 \/ m < 1 \/ m > 12 \/ d < 1 \/ d > DaysInMonth(y, m)
             THEN Raise("ValueError")
             ELSE Return([year |-> y, month |-> m, day |-> d])

RECURSIVE DaysBeforeMonth(_, _)
DaysBeforeMonth(y, m) ==
    IF m = 1 THEN 0 ELSE DaysBeforeMonth(y, m - 1) + DaysInMonth(y, m - 1)

\* date.weekday(): Monday is 0
Weekday(dt) ==
    LET py == dt.year - 1
        ordinal == py * 365 + py \div 4 - py \div 100 + py \div 400
                   + DaysBeforeMonth(dt.year, dt.month) + dt.day
    IN  (ordinal + 6) % 7

DayNames == <<"Monday", "Tuesday", "Wednesday", "Thursday", "Friday",
              "Saturday", "Sunday">>
MonthNames == <<"January", "February", "March", "April", "May", "June", "July",
                "August", "September", "October", "November", "December">>

\* dt.strftime("%A %d %B %Y")
strftime(dt) ==
    DayNames[Weekday(dt) + 1] \o " "
    \o (IF dt.day < 10 THEN "0" ELSE "") \o ToString(dt.day) \o " "
    \o MonthNames[dt.month] \o " " \o ToString(dt.year)

----------------------------------------------------------------------------
(* Statistics utilities *)

RECURSIVE Gcd(_, _)
Gcd(a, b) == IF b = 0 THEN a ELSE Gcd(b, a % b)

\* the exact quotient num / den (den > 0) of two counts of tenths, in lowest terms
Quotient(num, den) ==
    LET g == Gcd(Abs(num), den)
    IN  [num |-> num \div g, den |-> den \div g]

\* [float(x) for x in wd]
NumericData(wd) == [i \in 1..Len(wd) |-> Float(wd[i])]

RECURSIVE SumTenths(_)
\* sum(numeric_data), in tenths
SumTenths(numeric_data) ==
    IF numeric_data = <<>> THEN 0
    ELSE numeric_data[1].tenths + SumTenths(Tail(numeric_data))

\* a slip: no check for the empty list, so sum / len divides by zero
calculate_mean_unchecked(wd) ==
    IF wd = <<>> THEN Raise("ZeroDivisionError")
    ELSE LET numeric_data == NumericData(wd)
         IN  Return(Quotient(SumTenths(numeric_data), Len(numeric_data)))

calculate_mean(wd) ==
    IF wd = <<>> THEN Return("No daily weather data available.")
    ELSE LET numeric_data == NumericData(wd)
         IN  Return(Quotient(SumTenths(numeric_data), Len(numeric_data)))

RECURSIVE PyMinFrom(_, _, _)
\* min(s): left to right, a later element replaces the candidate only if smaller
PyMinFrom(s, i, m) ==
    IF i > Len(s) THEN m
    ELSE PyMinFrom(s, i + 1, IF FloatLt(s[i], m) THEN s[i] ELSE m)
PyMin(s) == PyMinFrom(s, 2, s[1])

RECURSIVE PyMaxFrom(_, _, _)
\* max(s): left to right, a later element replaces the candidate only if greater
PyMaxFrom(s, i, m) ==
    IF i > Len(s) THEN m
    ELSE PyMaxFrom(s, i + 1, IF FloatLt(m, s[i]) THEN s[i] ELSE m)
PyMax(s) == PyMaxFrom(s, 2, s[1])

\* a slip: the list is searched as it is, not reversed
ReversedForgotten(s) == s

\* s[::-1]
Reversed(s) == [i \in 1..Len(s) |-> s[Len(s) + 1 - i]]

RECURSIVE IndexFrom(_, _, _)
\* s.index(v): the 0-based position of the first element equal to v
IndexFrom(s, v, i) ==
    IF i > Len(s) THEN Raise("ValueError")
    ELSE IF FloatEq(s[i], v) THEN Return(i - 1)
    ELSE IndexFrom(s, v, i + 1)
\* a slip: the position is counted from 1
IndexOneBased(s, v) ==
    LET pos == IndexFrom(s, v, 1)
    IN  IF Raised(pos) THEN pos ELSE Return(pos.ret + 1)

Index(s, v) == IndexFrom(s, v, 1)

find_min(wd) ==
    LET numeric_data == NumericData(wd)
    IN  IF numeric_data = <<>> THEN Return(<<>>)
        ELSE LET min_value == PyMin(numeric_data)
                 pos == Index(Reversed(numeric_data), min_value)
             IN  IF Raised(pos) THEN pos
                 ELSE Return(<<min_value, Len(numeric_data) - 1 - pos.ret>>)

find_max(wd) ==
    LET numeric_data == NumericData(wd)
    IN  IF numeric_data = <<>> THEN Return(<<>>)
        ELSE LET max_value == PyMax(numeric_data)
                 pos == Index(Reversed(numeric_data), max_value)
             IN  IF Raised(pos) THEN pos
                 ELSE Return(<<max_value, Len(numeric_data) - 1 - pos.ret>>)

----------------------------------------------------------------------------
(* Report generators.  A day is the list [date, min_temp, max_temp] that     *)
(* load_data_from_csv builds: <<date, min_f, max_f>>.                        *)

SummaryStart ==
    [min_temp |-> PosInf, max_temp |-> NegInf, min_day |-> <<>>, max_day |-> <<>>,
     total_min |-> 0, total_max |-> 0]

\* a slip: <= and >= in place of < and >, so that a later equal day wins
SummaryStepLastWins(st, day) ==
    LET date_str == day[1]
        min_c == convert_f_to_c(day[2])
        max_c == convert_f_to_c(day[3])
        lower == ~ FloatLt(st.min_temp, min_c)
        higher == ~ FloatLt(max_c, st.max_temp)
    IN  [total_min |-> st.total_min + min_c.tenths,
         total_max |-> st.total_max + max_c.tenths,
         min_temp |-> IF lower THEN min_c ELSE st.min_temp,
         min_day |-> IF lower THEN date_str ELSE st.min_day,
         max_temp |-> IF higher THEN max_c ELSE st.max_temp,
         max_day |-> IF higher THEN date_str ELSE st.max_day]

\* one pass of the body of "for day in weather_data"
SummaryStep(st, day) ==
    LET date_str == day[1]
        min_c == convert_f_to_c(day[2])
        max_c == convert_f_to_c(day[3])
        lower == FloatLt(min_c, st.min_temp)
        higher == FloatLt(st.max_temp, max_c)
    IN  [total_min |-> st.total_min + min_c.tenths,
         total_max |-> st.total_max + max_c.tenths,
         min_temp |-> IF lower THEN min_c ELSE st.min_temp,
         min_day |-> IF lower THEN date_str ELSE st.min_day,
         max_temp |-> IF higher THEN max_c ELSE st.max_temp,
         max_day |-> IF higher THEN date_str ELSE st.max_day]

RECURSIVE SummaryLoop(_, _, _)
SummaryLoop(wd, i, st) ==
    IF i > Len(wd) THEN st ELSE SummaryLoop(wd, i + 1, SummaryStep(st, wd[i]))

\* a slip: the days are counted by their distinct dates
SummaryHeaderDistinct(wd) ==
    ToString(Cardinality({wd[i][1] : i \in 1..Len(wd)})) \o " Day Overview"

\* f"{len(weather_data)} Day Overview", the first line of the summary
SummaryHeader(wd) == ToString(Len(wd)) \o " Day Overview"

generate_summary(wd, err_min, err_max) ==
    IF wd = <<>> THEN [result |-> Return("No daily weather data available."), locals |-> [empty |-> TRUE]]
    ELSE
    LET st == SummaryLoop(wd, 1, SummaryStart)
        avg_min == Round1(st.total_min, Len(wd), err_min)
        avg_max == Round1(st.total_max, Len(wd), err_max)
        min_dt == fromisoformat(st.min_day)
        max_dt == fromisoformat(st.max_day)
        locals == [min_temp |-> st.min_temp, max_temp |-> st.max_temp,
                   min_day |-> st.min_day, max_day |-> st.max_day,
                   total_min |-> st.total_min, total_max |-> st.total_max,
                   avg_min |-> avg_min, avg_max |-> avg_max]
    IN  IF Raised(min_dt) THEN [result |-> min_dt, locals |-> locals]
        ELSE IF Raised(max_dt) THEN [result |-> max_dt, locals |-> locals]
        ELSE
        LET min_day_formatted == strftime(min_dt.ret)
            max_day_formatted == strftime(max_dt.ret)
            summary ==
                SummaryHeader(wd) \o "\n"
                \o "  The lowest temperature will be " \o format_temperature(st.min_temp)
                \o ", and will occur on " \o min_day_formatted \o ".\n"
                \o "  The highest temperature will be " \o format_temperature(st.max_temp)
                \o ", and will occur on " \o max_day_formatted \o ".\n"
                \o "  The average low this week is " \o format_temperature(avg_min) \o ".\n"
                \o "  The average high this week is " \o format_temperature(avg_max) \o ".\n"
        IN  [result |-> Return(summary), locals |-> locals]

\* a slip: the hyphen goes to every block
IsLastSummaryAlways(i, wd) == TRUE

\* whether this pass of the loop is the one that gets the hyphen (i is 0-based)
IsLastSummary(i, wd) == i = Len(wd) - 1

\* the body of "for i, day in enumerate(weather_data)": the block of day i (0-based)
DailyBlock(wd, i) ==
    LET day == wd[i + 1]
        dt == fromisoformat(day[1])
        min_c == Round1(convert_f_to_c(day[2]).tenths, 1, 0)
        max_c == Round1(convert_f_to_c(day[3]).tenths, 1, 0)
    IN  IF Raised(dt) THEN dt
        ELSE LET date == strftime(dt.ret)
                 lines == << "---- " \o date \o " ----",
                             "  Minimum Temperature: " \o format_temperature(min_c),
                             "  Maximum Temperature: " \o format_temperature(max_c) >>
                 summary_lines == IF IsLastSummary(i, wd)
                                  THEN [lines EXCEPT ![Len(lines)] = @ \o "-"]
                                  ELSE lines
             IN  Return(Join("\n", summary_lines))

RECURSIVE DailyLoop(_, _, _)
DailyLoop(wd, i, daily_summaries) ==
    IF i >= Len(wd) THEN [raised |-> FALSE, daily_summaries |-> daily_summaries]
    ELSE LET block == DailyBlock(wd, i)
         IN  IF Raised(block)
             THEN [raised |-> TRUE, daily_summaries |-> daily_summaries]
             ELSE DailyLoop(wd, i + 1, Append(daily_summaries, block.ret))

\* f"{len(weather_data)} Day Overview", the first line of the daily summary
DailyHeader(wd) == ToString(Len(wd)) \o " Day Overview"

generate_daily_summary(wd) ==
    IF wd = <<>> THEN [result |-> Return("No daily weather data available."), locals |-> [empty |-> TRUE]]
    ELSE
    LET loop == DailyLoop(wd, 0, <<>>)
        locals == [daily_summaries |-> loop.daily_summaries]
    IN  IF loop.raised THEN [result |-> Raise("ValueError"), locals |-> locals]
        ELSE [result |-> Return(DailyHeader(wd) \o "\n\n"
                                \o Join("\n\n", loop.daily_summaries)),
              locals |-> locals]

----------------------------------------------------------------------------
(* Inputs *)

Date_2021_07_06 == <<"2", "0", "2", "1", "-", "0", "7", "-", "0", "6">>
Date_2021_07_07 == <<"2", "0", "2", "1", "-", "0", "7", "-", "0", "7">>
Date_2021_02_30 == <<"2", "0", "2", "1", "-", "0", "2", "-", "3", "0">>

\* the last one is no date of the calendar
DateStrings == {Date_2021_07_06, Date_2021_07_07, Date_2021_02_30}
\* (min_temp, max_temp) in Fahrenheit: 0.0 and 20.0, -6.7 and 11.7 in Celsius
Temps == {<<32, 68>>, <<20, 53>>}
Days == {<<d, t[1], t[2]>> : d \in DateStrings, t \in Temps}
Numbers == {1, 2, 3}

\* the signs the binary error of total / len can have where it decides the result
FpErrs(total, n) ==
    IF total = 0 \/ 2 * (total % n) = n THEN {-1, 0, 1} ELSE {0}

NoReports ==
    /\ calls = 0
    /\ summary_result = NotCalled /\ summary_locals = NotCalled
    /\ daily_result = NotCalled /\ daily_locals = NotCalled
    /\ mean_result = NotCalled /\ min_result = NotCalled /\ max_result = NotCalled
    /\ celsius_result = NotCalled

InitSeries ==
    /\ \E n \in 1..MaxLen : weather_data \in [1..n -> Days]
    /\ data_type = "records"
    /\ LET st == SummaryLoop(weather_data, 1, SummaryStart)
       IN  /\ fp_err_min \in FpErrs(st.total_min, Len(weather_data))
           /\ fp_err_max \in FpErrs(st.total_max, Len(weather_data))

InitNumbers ==
    /\ \E n \in 1..MaxValues : weather_data \in [1..n -> Numbers]
    /\ data_type = "numbers"
    /\ fp_err_min = 0 /\ fp_err_max = 0

InitEmpty ==
    /\ weather_data = <<>>
    /\ data_type = "none"
    /\ fp_err_min = 0 /\ fp_err_max = 0

Init ==
    /\ InitSeries \/ InitNumbers \/ InitEmpty
    /\ temp_in_fahrenheit = 32
    /\ NoReports

InitConvert ==
    /\ InitEmpty
    /\ temp_in_fahrenheit \in (-FBelow)..FAbove
    /\ NoReports

----------------------------------------------------------------------------
(* Operations.  The report generators are called with a series, the          *)
(* statistics utilities with a list of numbers; the empty list is both.      *)

GenerateSummary ==
    /\ data_type \in {"records", "none"}
    /\ calls < MaxCalls
    /\ LET r == generate_summary(weather_data, fp_err_min, fp_err_max)
       IN  /\ summary_result' = r.result
           /\ summary_locals' = r.locals
    /\ calls' = calls + 1
    /\ UNCHANGED <<weather_data, data_type, fp_err_min, fp_err_max,
                   daily_result, daily_locals, mean_result, min_result, max_result,
                   temp_in_fahrenheit, celsius_result>>

\* a slip: the loop takes the days off the caller's list (weather_data.pop(0))
GenerateDailySummaryConsuming ==
    /\ data_type \in {"records", "none"}
    /\ calls < MaxCalls
    /\ LET r == generate_daily_summary(weather_data)
       IN  /\ daily_result' = r.result
           /\ daily_locals' = r.locals
    /\ calls' = calls + 1
    /\ weather_data' = <<>>
    /\ UNCHANGED <<data_type, fp_err_min, fp_err_max,
                   summary_result, summary_locals, mean_result, min_result, max_result,
                   temp_in_fahrenheit, celsius_result>>

GenerateDailySummary ==
    /\ data_type \in {"records", "none"}
    /\ calls < MaxCalls
    /\ LET r == generate_daily_summary(weather_data)
       IN  /\ daily_result' = r.result
           /\ daily_locals' = r.locals
    /\ calls' = calls + 1
    /\ UNCHANGED <<weather_data, data_type, fp_err_min, fp_err_max,
                   summary_result, summary_locals, mean_result, min_result, max_result,
                   temp_in_fahrenheit, celsius_result>>

CalculateMean ==
    /\ data_type \in {"numbers", "none"}
    /\ mean_result' = calculate_mean(weather_data)
    /\ UNCHANGED <<weather_data, data_type, fp_err_min, fp_err_max, calls,
                   summary_result, summary_locals, daily_result, daily_locals,
                   min_result, max_result, temp_in_fahrenheit, celsius_result>>

FindMin ==
    /\ data_type \in {"numbers", "none"}
    /\ min_result' = find_min(weather_data)
    /\ UNCHANGED <<weather_data, data_type, fp_err_min, fp_err_max, calls,
                   summary_result, summary_locals, daily_result, daily_locals,
                   mean_result, max_result, temp_in_fahrenheit, celsius_result>>

FindMax ==
    /\ data_type \in {"numbers", "none"}
    /\ max_result' = find_max(weather_data)
    /\ UNCHANGED <<weather_data, data_type, fp_err_min, fp_err_max, calls,
                   summary_result, summary_locals, daily_result, daily_locals,
                   mean_result, min_result, temp_in_fahrenheit, celsius_result>>

ConvertFToC ==
    /\ celsius_result' = Return(convert_f_to_c(temp_in_fahrenheit))
    /\ UNCHANGED <<weather_data, data_type, fp_err_min, fp_err_max, calls,
                   summary_result, summary_locals, daily_result, daily_locals,
                   mean_result, min_result, max_result, temp_in_fahrenheit>>

Next == GenerateSummary \/ GenerateDailySummary \/ CalculateMean \/ FindMin \/ FindMax

Spec == Init /\ [][Next]_vars

NextConvert == ConvertFToC

SpecConvert == InitConvert /\ [][NextConvert]_vars

----------------------------------------------------------------------------
(* Properties of the statistics utilities *)

\* the numbers of the list, in tenths
Tenths(i) == 10 * weather_data[i]
Positions == 1..Len(weather_data)

\* C1: for a non-empty list of numbers find_min returns (v, i) with v the minimum
\* of the list, values[i] = v and no later position holding v (i is the 0-based
\* index of the last occurrence), and find_max the same for the maximum;
\* find_min([1,2,1,3]) = (1.0, 2) and find_max([3,1,3,2]) = (3.0, 2).
C1_LastOccurrence ==
    data_type = "numbers" =>
        /\ min_result # NotCalled =>
              /\ Returned(min_result)
              /\ LET v == min_result.ret[1].tenths
                     i == min_result.ret[2]
                 IN  /\ i \in 0..(Len(weather_data) - 1)
                     /\ \A j \in Positions : v <= Tenths(j)
                     /\ Tenths(i + 1) = v
                     /\ \A j \in Positions : j > i + 1 => Tenths(j) # v
              /\ weather_data = <<1, 2, 1, 3>> => min_result = Return(<<Finite(10, FALSE), 2>>)
        /\ max_result # NotCalled =>
              /\ Returned(max_result)
              /\ LET v == max_result.ret[1].tenths
                     i == max_result.ret[2]
                 IN  /\ i \in 0..(Len(weather_data) - 1)
                     /\ \A j \in Positions : v >= Tenths(j)
                     /\ Tenths(i + 1) = v
                     /\ \A j \in Positions : j > i + 1 => Tenths(j) # v
              /\ weather_data = <<3, 1, 3, 2>> => max_result = Return(<<Finite(30, FALSE), 2>>)

\* both extrema occur twice, and both functions have answered
C1_Witness ==
    /\ data_type = "numbers" /\ weather_data = <<3, 1, 3, 1>>
    /\ min_result = Return(<<Finite(10, FALSE), 3>>)
    /\ max_result = Return(<<Finite(30, FALSE), 2>>)

RECURSIVE ScanMin(_, _, _)
\* a left-to-right scan: best = <<running minimum, its index>>; the index is
\* replaced whenever the element is <= the running minimum
ScanMin(s, i, best) ==
    IF i > Len(s) THEN best
    ELSE ScanMin(s, i + 1, IF s[i] <= best[1] THEN <<s[i], i - 1>> ELSE best)

RECURSIVE ScanMax(_, _, _)
\* the same with >= for the maximum
ScanMax(s, i, best) ==
    IF i > Len(s) THEN best
    ELSE ScanMax(s, i + 1, IF s[i] >= best[1] THEN <<s[i], i - 1>> ELSE best)

\* C9: the reverse-then-index computation of find_min / find_max returns the same
\* (value, index) as one left-to-right scan that keeps a running extremum and
\* replaces the stored index whenever the element is <= (min) or >= (max) it.
C9_ScanEquivalence ==
    data_type = "numbers" =>
        LET s == [i \in Positions |-> Tenths(i)]
        IN  /\ min_result # NotCalled =>
                  /\ Returned(min_result)
                  /\ <<min_result.ret[1].tenths, min_result.ret[2]>>
                        = ScanMin(s, 2, <<s[1], 0>>)
            /\ max_result # NotCalled =>
                  /\ Returned(max_result)
                  /\ <<max_result.ret[1].tenths, max_result.ret[2]>>
                        = ScanMax(s, 2, <<s[1], 0>>)

\* a list whose extrema recur, where the scan replaces its index more than once
C9_Witness ==
    /\ data_type = "numbers" /\ weather_data = <<2, 1, 3, 1>>
    /\ Returned(min_result) /\ min_result.ret[2] = 3
    /\ Returned(max_result) /\ max_result.ret[2] = 2

\* C4: on the empty list generate_summary, generate_daily_summary and
\* calculate_mean each return the string "No daily weather data available.", and
\* find_min and find_max each return the empty tuple; none raises.
C4_EmptyInput ==
    weather_data = <<>> =>
        /\ summary_result \in {NotCalled, Return("No daily weather data available.")}
        /\ daily_result \in {NotCalled, Return("No daily weather data available.")}
        /\ mean_result \in {NotCalled, Return("No daily weather data available.")}
        /\ min_result \in {NotCalled, Return(<<>>)}
        /\ max_result \in {NotCalled, Return(<<>>)}

\* all five have been called on the empty list
C4_Witness ==
    /\ weather_data = <<>>
    /\ Returned(summary_result) /\ Returned(daily_result) /\ Returned(mean_result)
    /\ Returned(min_result) /\ Returned(max_result)

----------------------------------------------------------------------------
(* Properties of the report generators *)

IsSeries == data_type = "records"
Count == Len(weather_data)
LowOf(i) == convert_f_to_c(weather_data[i][2]).tenths
HighOf(i) == convert_f_to_c(weather_data[i][3]).tenths

\* the first day that reaches the lowest converted minimum, and the first day
\* that reaches the highest converted maximum
FirstLowest ==
    CHOOSE k \in Positions :
        /\ \A j \in Positions : LowOf(k) <= LowOf(j)
        /\ \A j \in Positions : j < k => LowOf(j) > LowOf(k)
FirstHighest ==
    CHOOSE k \in Positions :
        /\ \A j \in Positions : HighOf(k) >= HighOf(j)
        /\ \A j \in Positions : j < k => HighOf(j) < HighOf(k)

\* the date of day i as the reports print it (day i has a date of the calendar)
HumanDate(i) == strftime(fromisoformat(weather_data[i][1]).ret)

\* C2: for a non-empty series generate_summary reports as the lowest temperature
\* the minimum of the converted minima, dated with the first day that reaches it,
\* and as the highest the maximum of the converted maxima, dated with the first
\* day that reaches it: a later day with an equal value never replaces it.
C2_FirstOccurrence ==
    (IsSeries /\ summary_result # NotCalled) =>
        /\ summary_locals.min_temp = Finite(LowOf(FirstLowest), FALSE)
        /\ summary_locals.min_day = weather_data[FirstLowest][1]
        /\ summary_locals.max_temp = Finite(HighOf(FirstHighest), FALSE)
        /\ summary_locals.max_day = weather_data[FirstHighest][1]
        /\ Returned(summary_result) =>
              summary_result.ret =
                 ToString(Count) \o " Day Overview\n"
                 \o "  The lowest temperature will be "
                 \o FloatStr(Finite(LowOf(FirstLowest), FALSE)) \o "\\N{DEGREE SIGN}C, and will occur on "
                 \o HumanDate(FirstLowest) \o ".\n"
                 \o "  The highest temperature will be "
                 \o FloatStr(Finite(HighOf(FirstHighest), FALSE)) \o "\\N{DEGREE SIGN}C, and will occur on "
                 \o HumanDate(FirstHighest) \o ".\n"
                 \o "  The average low this week is "
                 \o FloatStr(summary_locals.avg_min) \o "\\N{DEGREE SIGN}C.\n"
                 \o "  The average high this week is "
                 \o FloatStr(summary_locals.avg_max) \o "\\N{DEGREE SIGN}C.\n"

\* the lowest and the highest value each occur on two days with different dates,
\* and the report names the first
C2_Witness ==
    /\ IsSeries /\ Count = 3
    /\ Returned(summary_result)
    /\ \E j \in Positions : j > FirstLowest /\ LowOf(j) = LowOf(FirstLowest)
                            /\ weather_data[j][1] # weather_data[FirstLowest][1]
    /\ \E j \in Positions : j > FirstHighest /\ HighOf(j) = HighOf(FirstHighest)
                            /\ weather_data[j][1] # weather_data[FirstHighest][1]

HasBadDate == \E i \in Positions : Raised(fromisoformat(weather_data[i][1]))

\* C3: for a series with a day whose date string is no valid ISO date,
\* generate_summary and generate_daily_summary each fail with the parse error and
\* return no report, whichever day is malformed.
C3_FailFast ==
    (IsSeries /\ HasBadDate) =>
        /\ summary_result # NotCalled => Raised(summary_result)
        /\ daily_result # NotCalled => Raised(daily_result)

\* the block of day i as the specification draws it, without the hyphen
SpecBlock(i) ==
    "---- " \o HumanDate(i) \o " ----\n"
    \o "  Minimum Temperature: " \o FloatStr(Finite(LowOf(i), FALSE)) \o "\\N{DEGREE SIGN}C\n"
    \o "  Maximum Temperature: " \o FloatStr(Finite(HighOf(i), FALSE)) \o "\\N{DEGREE SIGN}C"

RECURSIVE SpecBlocksFrom(_)
\* the blocks of days i, i + 1, ... each followed by a blank line, the last one
\* by the hyphen
SpecBlocksFrom(i) ==
    IF i = Count THEN SpecBlock(i) \o "-"
    ELSE SpecBlock(i) \o "\n\n" \o SpecBlocksFrom(i + 1)

\* C5: for a non-empty series (of days with calendar dates)
\* generate_daily_summary emits one block per day, in input order, separated by
\* one blank line, with the hyphen after the Maximum Temperature line of the last
\* block and nowhere else; for [("2021-07-06", 32, 68)] the output is the one of
\* the specification.
C5_DailyBlocks ==
    (IsSeries /\ ~ HasBadDate /\ daily_result # NotCalled) =>
        /\ Returned(daily_result)
        /\ Len(daily_locals.daily_summaries) = Count
        /\ \A i \in Positions :
              daily_locals.daily_summaries[i]
                 = SpecBlock(i) \o (IF i = Count THEN "-" ELSE "")
        /\ daily_result.ret = ToString(Count) \o " Day Overview\n\n" \o SpecBlocksFrom(1)
        /\ weather_data = << <<Date_2021_07_06, 32, 68>> >> =>
              daily_result.ret = "1 Day Overview\n\n---- Tuesday 06 July 2021 ----\n  Minimum Temperature: 0.0\\N{DEGREE SIGN}C\n  Maximum Temperature: 20.0\\N{DEGREE SIGN}C-"

\* three different days, reported in their order
C5_Witness ==
    /\ IsSeries
    /\ weather_data = << <<Date_2021_07_07, 20, 53>>, <<Date_2021_07_06, 32, 68>>,
                         <<Date_2021_07_07, 32, 68>> >>
    /\ Returned(daily_result)
    /\ Len(daily_locals.daily_summaries) = 3

\* the four lines that follow the first line of the summary
SummaryBody ==
    "  The lowest temperature will be " \o FloatStr(summary_locals.min_temp)
    \o "\\N{DEGREE SIGN}C, and will occur on "
    \o strftime(fromisoformat(summary_locals.min_day).ret) \o ".\n"
    \o "  The highest temperature will be " \o FloatStr(summary_locals.max_temp)
    \o "\\N{DEGREE SIGN}C, and will occur on "
    \o strftime(fromisoformat(summary_locals.max_day).ret) \o ".\n"
    \o "  The average low this week is " \o FloatStr(summary_locals.avg_min) \o "\\N{DEGREE SIGN}C.\n"
    \o "  The average high this week is " \o FloatStr(summary_locals.avg_max) \o "\\N{DEGREE SIGN}C.\n"

\* C6: for a non-empty series of N days the first line of the output of
\* generate_summary and of generate_daily_summary is "<N> Day Overview", N the
\* number of days of the series: days with the same date are counted separately.
C6_HeaderCount ==
    IsSeries =>
        /\ Returned(summary_result) =>
              summary_result.ret = ToString(Count) \o " Day Overview" \o "\n" \o SummaryBody
        /\ Returned(daily_result) =>
              daily_result.ret = ToString(Count) \o " Day Overview" \o "\n" \o "\n"
                                 \o Join("\n\n", daily_locals.daily_summaries)

\* three days, all with the same date, and both reports made
C6_Witness ==
    /\ IsSeries /\ Count = 3
    /\ \A i \in Positions : weather_data[i][1] = Date_2021_07_06
    /\ Returned(summary_result) /\ Returned(daily_result)

\* the tenth nearest to (f - 32) * 5/9: the Celsius value of f, in tenths
SpecCelsius(f) ==
    LET q == (50 * (f - 32)) \div 9
    IN  CHOOSE c \in q..(q + 1) : 2 * Abs(9 * c - 50 * (f - 32)) < 9

RECURSIVE SumOver(_, _)
\* the sum of SpecCelsius over field k (2: minimum, 3: maximum) of days 1..n
SumOver(k, n) ==
    IF n = 0 THEN 0 ELSE SumOver(k, n - 1) + SpecCelsius(weather_data[n][k])

RECURSIVE ExactSumOver(_, _)
\* the sum of (f - 32) * 50 over field k of days 1..n: nine times the unrounded
\* sum of the Celsius values, in tenths
ExactSumOver(k, n) ==
    IF n = 0 THEN 0 ELSE ExactSumOver(k, n - 1) + 50 * (weather_data[n][k] - 32)

\* C7: for a non-empty series the average low (high) of generate_summary is the
\* sum of the converted minima (maxima), each already rounded to one decimal,
\* divided by the number of days and then rounded to one decimal: the rounding
\* is per day, before the summation.
C7_AverageOfRounded ==
    (IsSeries /\ summary_result # NotCalled) =>
        /\ summary_locals.total_min = SumOver(2, Count)
        /\ summary_locals.total_max = SumOver(3, Count)
        /\ 2 * Abs(Count * summary_locals.avg_min.tenths - SumOver(2, Count)) <= Count
        /\ 2 * Abs(Count * summary_locals.avg_max.tenths - SumOver(3, Count)) <= Count

\* minima of -6.7, -6.7 and 0.0: their mean -4.4666... is reported as -4.5, while
\* the mean -4.4444... of the unrounded values would be reported as -4.4
C7_Witness ==
    /\ IsSeries /\ Returned(summary_result)
    /\ Count = 3
    /\ weather_data[1][2] = 20 /\ weather_data[2][2] = 20 /\ weather_data[3][2] = 32
    /\ summary_locals.avg_min = Finite(-45, FALSE)
    /\ 2 * Abs(9 * Count * summary_locals.avg_min.tenths - ExactSumOver(2, Count))
          > 9 * Count

\* C8: the generators leave the series and its days unchanged, and a call of a
\* generator that has answered before gives the same answer again, whatever was
\* called in between.
C8_PureGenerators ==
    [][ /\ weather_data' = weather_data
        /\ summary_result # NotCalled => summary_result' = summary_result
        /\ daily_result # NotCalled => daily_result' = daily_result ]_vars

\* three calls on a series with more than one day, both reports made
C8_Witness ==
    /\ IsSeries /\ Count >= 2 /\ calls >= 3
    /\ Returned(summary_result) /\ Returned(daily_result)

----------------------------------------------------------------------------
(* Properties of the conversion *)

\* num / den rounded to the nearest integer, a half away from zero (den > 0)
RoundHalfAway(num, den) ==
    IF num >= 0 THEN (2 * num + den) \div (2 * den)
    ELSE - ((2 * (-num) + den) \div (2 * den))

\* num / den rounded to the nearest integer, a half to the even one (den > 0)
RoundHalfEven(num, den) ==
    LET q == num \div den
        r == num % den
    IN  IF 2 * r < den THEN q
        ELSE IF 2 * r > den THEN q + 1
        ELSE IF q % 2 = 0 THEN q ELSE q + 1

\* C10: for an integer f the exact (f - 32) * 5/9 is never halfway between two
\* tenths, so convert_f_to_c gives what both roundings of a half give;
\* convert_f_to_c(32) = 0.0 and convert_f_to_c(212) = 100.0; and no other
\* integer converts to the same value.
C10_NoHalfway ==
    celsius_result # NotCalled =>
        LET f == temp_in_fahrenheit
            c == celsius_result.ret
        IN  /\ (100 * (f - 32)) % 18 # 9
            /\ c = Finite(RoundHalfAway(50 * (f - 32), 9), FALSE)
            /\ c = Finite(RoundHalfEven(50 * (f - 32), 9), FALSE)
            /\ f = 32 => c = Finite(0, FALSE)
            /\ f = 212 => c = Finite(1000, FALSE)
            /\ \A g \in (-FBelow)..FAbove : g # f => convert_f_to_c(g) # c

\* a negative value whose nearest tenth lies away from zero of the exact value
C10_Witness ==
    /\ temp_in_fahrenheit = 31
    /\ celsius_result = Return(Finite(-6, FALSE))

====
